---- MODULE Spec2Model ----
(***************************************************************************)
(* The gesture classifier of composables/useDoubleClick.js: the session    *)
(* state of useDoubleClick, its five event handlers, its three timer       *)
(* callbacks, resetState/reset and the onUnmounted hook, over a discrete   *)
(* clock that stands for Date.now() (milliseconds).                        *)
(***************************************************************************)
EXTENDS Integers, Sequences, FiniteSets, TLC

\* ---- configuration of useDoubleClick (defaults of the options object) ----
delay == 300
longPressDelay == 800
\* the page configures all three callbacks
onSingleClick == TRUE
onDoubleClick == TRUE
onLongPress == TRUE
\* hard-coded windows of handleTouchEnd / handleClick
DebounceMs == 50
SuppressMs == 100

\* ---- bounds of the model ----
\* granularity of the clock, first clock value, length of the observed run
Tick == 100
Epoch == 1000
Horizon == 1100
\* the same for the finer clock of SpecFine, which resolves the 50 ms and 100 ms windows
TickFine == 50
HorizonFine == 400
\* fingers that may be down at once, timers that may be live without a handle
MaxFingers == 2
MaxOrphans == 1

VARIABLES
  now,                 \* Date.now()
  clickCount, isLongPress, touchStartTime, lastClickTime,
  isDoubleClickProcessed, suppressClickUntil,
  singleClickTimer, longPressTimer, suppressTimer,
  orphans,             \* live timers of the event loop no handle refers to
  fired,               \* callbacks invoked by the last step, in order
  seen,                \* the session as each of those callbacks found it when called
  op,                  \* the last step: handler or timer callback, and its event
  fingers,             \* touches currently down on the element
  press,               \* the latest touch-start, as the platform saw it
  mounted              \* the owning component is mounted

vars == <<now, clickCount, isLongPress, touchStartTime, lastClickTime,
          isDoubleClickProcessed, suppressClickUntil,
          singleClickTimer, longPressTimer, suppressTimer,
          orphans, fired, seen, op, fingers, press, mounted>>

\* ---- timers (setTimeout / clearTimeout) ----
NoEvent == <<"none", 0>>
\* a ref holding null
Null == [kind |-> "none", at |-> 0, ev |-> NoEvent, live |-> FALSE]

\* setTimeout(callback, ms) called at time t; the callback closes over ev
setTimeout(kind, ev, t, ms) == [kind |-> kind, at |-> t + ms, ev |-> ev, live |-> TRUE]

\* the timers the event loop will still run
LiveTimers ==
  {tm \in {singleClickTimer, longPressTimer, suppressTimer} : tm.live} \cup orphans

\* ---- the session as one value, for the handlers to transform ----
Session ==
  [clickCount |-> clickCount, isLongPress |-> isLongPress,
   touchStartTime |-> touchStartTime, lastClickTime |-> lastClickTime,
   isDoubleClickProcessed |-> isDoubleClickProcessed,
   suppressClickUntil |-> suppressClickUntil,
   singleClickTimer |-> singleClickTimer, longPressTimer |-> longPressTimer,
   suppressTimer |-> suppressTimer, orphans |-> orphans, fired |-> << >>,
   seen |-> << >>]

Commit(S) ==
  /\ clickCount' = S.clickCount
  /\ isLongPress' = S.isLongPress
  /\ touchStartTime' = S.touchStartTime
  /\ lastClickTime' = S.lastClickTime
  /\ isDoubleClickProcessed' = S.isDoubleClickProcessed
  /\ suppressClickUntil' = S.suppressClickUntil
  /\ singleClickTimer' = S.singleClickTimer
  /\ longPressTimer' = S.longPressTimer
  /\ suppressTimer' = S.suppressTimer
  /\ orphans' = S.orphans
  /\ fired' = S.fired
  /\ seen' = S.seen

\* ref.value = setTimeout(...): a live timer the ref held stays in the event loop
Leak(S, old) == IF old.live THEN S.orphans \cup {old} ELSE S.orphans

\* the refs as a callback, or the code after a handler, can read them
Refs(S) ==
  [clickCount |-> S.clickCount, isLongPress |-> S.isLongPress,
   touchStartTime |-> S.touchStartTime, lastClickTime |-> S.lastClickTime,
   isDoubleClickProcessed |-> S.isDoubleClickProcessed,
   suppressClickUntil |-> S.suppressClickUntil,
   singleClickTimer |-> S.singleClickTimer, longPressTimer |-> S.longPressTimer,
   suppressTimer |-> S.suppressTimer]

Invoke(S, configured, cb, ev) ==
  IF configured
    THEN [S EXCEPT !.fired = Append(@, <<cb, ev>>), !.seen = Append(@, Refs(S))]
    ELSE S

\* clearAllTimers without its first block: the single-click timer is left alone
clearAllTimersNoSingle(S) ==
  [S EXCEPT !.longPressTimer = Null, !.suppressTimer = Null]

clearAllTimers(S) ==
  [S EXCEPT !.singleClickTimer = Null, !.longPressTimer = Null, !.suppressTimer = Null]

\* resetState without its closing clearAllTimers()
resetStateNoClear(S, preserveSuppression) ==
  [S EXCEPT !.clickCount = 0, !.isLongPress = FALSE, !.touchStartTime = 0,
            !.lastClickTime = 0, !.isDoubleClickProcessed = FALSE,
            !.suppressClickUntil = IF preserveSuppression THEN @ ELSE 0]

resetState(S, preserveSuppression) ==
  clearAllTimers(
    [S EXCEPT !.clickCount = 0, !.isLongPress = FALSE, !.touchStartTime = 0,
              !.lastClickTime = 0, !.isDoubleClickProcessed = FALSE,
              !.suppressClickUntil = IF preserveSuppression THEN @ ELSE 0])

handleTouchStart(S, ev, t) ==
  LET S1 == [S EXCEPT !.touchStartTime = t, !.isLongPress = FALSE]
  IN IF onLongPress
       THEN [S1 EXCEPT !.longPressTimer = setTimeout("longPress", ev, t, longPressDelay),
                       !.orphans = Leak(S1, S1.longPressTimer)]
       ELSE S1

handleTouchMove(S) == [S EXCEPT !.longPressTimer = Null]

\* resolveTouchEnd with the second branch testing clickCount === 3
resolveTouchEndThird(S, ev, t) ==
  IF S.clickCount = 1
    THEN [S EXCEPT !.singleClickTimer = setTimeout("singleClick", ev, t, delay),
                   !.orphans = Leak(S, S.singleClickTimer)]
  ELSE IF S.clickCount = 3
    THEN
      LET S3 == [S EXCEPT !.isDoubleClickProcessed = TRUE,
                          !.suppressClickUntil = t + SuppressMs,
                          !.singleClickTimer = Null,
                          !.longPressTimer = Null]
          S4 == [S3 EXCEPT !.suppressTimer = setTimeout("suppress", ev, t, SuppressMs),
                           !.orphans = Leak(S3, S3.suppressTimer)]
      IN resetState(Invoke(S4, onDoubleClick, "onDoubleClick", ev), TRUE)
  ELSE S

\* handleTouchEnd after clickCount.value++: the two resolution branches
resolveTouchEnd(S, ev, t) ==
  IF S.clickCount = 1
    THEN [S EXCEPT !.singleClickTimer = setTimeout("singleClick", ev, t, delay),
                   !.orphans = Leak(S, S.singleClickTimer)]
  ELSE IF S.clickCount = 2
    THEN
      LET S3 == [S EXCEPT !.isDoubleClickProcessed = TRUE,
                          !.suppressClickUntil = t + SuppressMs,
                          !.singleClickTimer = Null,
                          !.longPressTimer = Null]
          S4 == [S3 EXCEPT !.suppressTimer = setTimeout("suppress", ev, t, SuppressMs),
                           !.orphans = Leak(S3, S3.suppressTimer)]
      IN resetState(Invoke(S4, onDoubleClick, "onDoubleClick", ev), TRUE)
  ELSE S

handleTouchEnd(S, ev, t) ==
  IF t - S.lastClickTime < DebounceMs THEN S
  ELSE
    LET S1 == [S EXCEPT !.lastClickTime = t, !.longPressTimer = Null]
        touchDuration == t - S.touchStartTime
    IN IF S1.isLongPress \/ touchDuration >= longPressDelay
         THEN resetState(S1, FALSE)
         ELSE resolveTouchEnd([S1 EXCEPT !.clickCount = @ + 1], ev, t)

\* handleClick after the suppression check
acceptClick(S, ev, t) ==
  IF t - S.lastClickTime < DebounceMs THEN S
  ELSE
    LET S1 == [S EXCEPT !.lastClickTime = t, !.longPressTimer = Null]
        S2 == [S1 EXCEPT !.clickCount = @ + 1]
    IN IF S2.clickCount = 1
         THEN [S2 EXCEPT !.singleClickTimer = setTimeout("singleClick", ev, t, delay),
                         !.orphans = Leak(S2, S2.singleClickTimer)]
       ELSE IF S2.clickCount = 2
         THEN resetState(Invoke(clearAllTimers(S2), onDoubleClick, "onDoubleClick", ev), FALSE)
       ELSE S2

\* handleClick without the check of suppressClickUntil
handleClickUnsuppressed(S, ev, t) == acceptClick(S, ev, t)

handleClick(S, ev, t) ==
  IF t < S.suppressClickUntil THEN S ELSE acceptClick(S, ev, t)

handleTouchCancel(S) == resetState(clearAllTimers(S), FALSE)

onUnmounted(S) == clearAllTimers(S)

\* the callback handleTouchStart passes to setTimeout
longPressExpired(S, ev) ==
  Invoke(clearAllTimers([S EXCEPT !.isLongPress = TRUE]), onLongPress, "onLongPress", ev)

\* the callback handleTouchEnd and handleClick pass to setTimeout
singleClickExpired(S, ev) ==
  resetState(IF S.clickCount = 1 THEN Invoke(S, onSingleClick, "onSingleClick", ev) ELSE S,
             FALSE)

\* the callback that ends the suppression window
suppressExpired(S) == [S EXCEPT !.suppressClickUntil = 0]

\* the event loop takes tm off its queue (a ref may keep the spent id) and runs it
Spend(S, tm) ==
  [S EXCEPT !.singleClickTimer = IF @ = tm THEN [@ EXCEPT !.live = FALSE] ELSE @,
            !.longPressTimer = IF @ = tm THEN [@ EXCEPT !.live = FALSE] ELSE @,
            !.suppressTimer = IF @ = tm THEN [@ EXCEPT !.live = FALSE] ELSE @,
            !.orphans = @ \ {tm}]

runTimer(S, tm) ==
  CASE tm.kind = "longPress" -> longPressExpired(Spend(S, tm), tm.ev)
    [] tm.kind = "singleClick" -> singleClickExpired(Spend(S, tm), tm.ev)
    [] OTHER -> suppressExpired(Spend(S, tm))

\* ---- the platform ----
\* ev: its event; solo: no other finger was down; moved: a touch-move followed;
\* other: a click or reset() followed while it was down; lp: onLongPress calls with ev
NoPress == [ev |-> NoEvent, solo |-> FALSE, moved |-> FALSE, other |-> FALSE, lp |-> 0]
Disturbed == IF fingers > 0 THEN [press EXCEPT !.other = TRUE] ELSE press
\* h: the handler or timer callback; ev: its event; opened: when the step confirmed a
\* double-click, the type of the event whose single-click timer it found pending
Step(h, ev) == [h |-> h, ev |-> ev, opened |-> "none"]
Opener(S) ==
  IF S.fired # << >> /\ singleClickTimer.live THEN singleClickTimer.ev[1] ELSE "none"

Init ==
  /\ now = Epoch
  /\ clickCount = 0 /\ isLongPress = FALSE /\ touchStartTime = 0 /\ lastClickTime = 0
  /\ isDoubleClickProcessed = FALSE /\ suppressClickUntil = 0
  /\ singleClickTimer = Null /\ longPressTimer = Null /\ suppressTimer = Null
  /\ orphans = {} /\ fired = << >> /\ seen = << >> /\ op = Step("init", NoEvent)
  /\ fingers = 0 /\ press = NoPress /\ mounted = TRUE

\* a timer whose time has come runs before the clock moves on
Due(tm) == tm.at <= now /\ \A o \in LiveTimers : tm.at <= o.at

Advance ==
  /\ now + Tick <= Epoch + Horizon
  /\ \A tm \in LiveTimers : tm.at > now
  /\ now' = now + Tick
  /\ UNCHANGED <<clickCount, isLongPress, touchStartTime, lastClickTime,
                 isDoubleClickProcessed, suppressClickUntil,
                 singleClickTimer, longPressTimer, suppressTimer,
                 orphans, fired, seen, op, fingers, press, mounted>>

TouchStart ==
  /\ mounted /\ fingers < MaxFingers
  /\ longPressTimer.live => Cardinality(orphans) < MaxOrphans
  \* an event is identified by type and timestamp: touch-starts differ in time
  /\ press.ev # <<"touchstart", now>>
  /\ LET ev == <<"touchstart", now>>
     IN /\ Commit(handleTouchStart(Session, ev, now))
        /\ op' = Step("handleTouchStart", ev)
        /\ press' = [ev |-> ev, solo |-> fingers = 0, moved |-> FALSE, other |-> FALSE, lp |-> 0]
  /\ fingers' = fingers + 1
  /\ UNCHANGED <<now, mounted>>

TouchMove ==
  /\ mounted /\ fingers > 0
  /\ Commit(handleTouchMove(Session))
  /\ op' = Step("handleTouchMove", <<"touchmove", now>>)
  /\ press' = [press EXCEPT !.moved = TRUE]
  /\ UNCHANGED <<now, fingers, mounted>>

TouchEnd ==
  /\ mounted /\ fingers > 0
  /\ LET ev == <<"touchend", now>>
     IN /\ Commit(handleTouchEnd(Session, ev, now))
        /\ op' = [Step("handleTouchEnd", ev) EXCEPT
                    !.opened = Opener(handleTouchEnd(Session, ev, now))]
  /\ fingers' = fingers - 1
  /\ UNCHANGED <<now, press, mounted>>

TouchCancel ==
  /\ mounted /\ fingers > 0
  /\ Commit(handleTouchCancel(Session))
  /\ op' = Step("handleTouchCancel", <<"touchcancel", now>>)
  /\ fingers' = 0
  /\ UNCHANGED <<now, press, mounted>>

Click ==
  /\ mounted
  /\ LET ev == <<"click", now>>
     IN /\ Commit(handleClick(Session, ev, now))
        /\ op' = [Step("handleClick", ev) EXCEPT
                    !.opened = Opener(handleClick(Session, ev, now))]
  /\ press' = Disturbed
  /\ UNCHANGED <<now, fingers, mounted>>

Reset ==
  /\ mounted
  /\ Commit(resetState(Session, FALSE))
  /\ op' = Step("reset", NoEvent)
  /\ press' = Disturbed
  /\ UNCHANGED <<now, fingers, mounted>>

Unmount ==
  /\ mounted
  /\ Commit(onUnmounted(Session))
  /\ op' = Step("onUnmounted", NoEvent)
  /\ mounted' = FALSE
  /\ fingers' = 0
  /\ UNCHANGED <<now, press>>

TimerExpire ==
  \E tm \in LiveTimers :
    /\ Due(tm)
    /\ Commit(runTimer(Session, tm))
    /\ op' = Step(tm.kind, tm.ev)
    /\ press' = IF tm.kind = "longPress" /\ tm.ev = press.ev /\ onLongPress
                  THEN [press EXCEPT !.lp = @ + 1] ELSE press
    /\ UNCHANGED <<now, fingers, mounted>>

Next ==
  \/ Advance
  \/ TouchStart
  \/ TouchMove
  \/ TouchEnd
  \/ TouchCancel
  \/ Click
  \/ Reset
  \/ Unmount
  \/ TimerExpire

Spec == Init /\ [][Next]_vars

\* the same program on a finer and shorter clock
AdvanceFine ==
  /\ now + TickFine <= Epoch + HorizonFine
  /\ \A tm \in LiveTimers : tm.at > now
  /\ now' = now + TickFine
  /\ UNCHANGED <<clickCount, isLongPress, touchStartTime, lastClickTime,
                 isDoubleClickProcessed, suppressClickUntil,
                 singleClickTimer, longPressTimer, suppressTimer,
                 orphans, fired, seen, op, fingers, press, mounted>>

NextFine ==
  \/ AdvanceFine
  \/ TouchStart
  \/ TouchMove
  \/ TouchEnd
  \/ TouchCancel
  \/ Click
  \/ Reset
  \/ Unmount
  \/ TimerExpire

SpecFine == Init /\ [][NextFine]_vars

TypeOK ==
  /\ now \in Epoch..(Epoch + Horizon + Tick)
  /\ clickCount \in 0..2
  /\ fingers \in 0..MaxFingers

\* ---- what the claims speak of ----
\* the step being taken is the named handler (any other step names itself in op)
TouchEndStep == op'.h = "handleTouchEnd" /\ now' = now /\ fingers' = fingers - 1
TouchMoveStep == op'.h = "handleTouchMove" /\ now' = now
ClickStep == op'.h = "handleClick" /\ now' = now
SingleClickExpiry == op'.h = "singleClick" /\ now' = now

\* one finger is down, it went down alone, and it has been down for less than longPressDelay
TapEnding ==
  mounted /\ fingers = 1 /\ press.solo /\ now - press.ev[2] < longPressDelay

\* one finger went down alone and has stayed down, undisturbed, for more than longPressDelay
HeldLong ==
  /\ mounted /\ fingers = 1 /\ press.solo
  /\ ~press.moved /\ ~press.other
  /\ now - press.ev[2] > longPressDelay

SessionUnchanged ==
  UNCHANGED <<clickCount, isLongPress, touchStartTime, lastClickTime,
              isDoubleClickProcessed, suppressClickUntil,
              singleClickTimer, longPressTimer, suppressTimer, orphans>>

SessionInitial ==
  /\ clickCount = 0 /\ ~isLongPress /\ touchStartTime = 0 /\ lastClickTime = 0
  /\ ~isDoubleClickProcessed /\ suppressClickUntil = 0

\* the last handler confirmed a double-click
DoubleClickConfirmed ==
  op.h \in {"handleTouchEnd", "handleClick"} /\ fired = << <<"onDoubleClick", op.ev>> >>

\* C1: a tap (touch-start, touch-end after less than longPressDelay) that opens an
\* episode leaves clickCount = 1 with the single-click timer armed for delay ms with
\* its event, and the expiry of that timer with clickCount still 1 invokes
\* onSingleClick once with that event, whatever episodes came before.
C1_SingleTap ==
  [][ /\ (TouchEndStep /\ TapEnding /\ ~press.other /\ clickCount = 0)
          => /\ clickCount' = 1
             /\ singleClickTimer' = setTimeout("singleClick", <<"touchend", now>>, now, delay)
      /\ (SingleClickExpiry /\ clickCount = 1)
          => fired' = << <<"onSingleClick", op'.ev>> >> ]_vars

\* the time of the latest accepted touch-end that counted a click, 0 when unknown
PrevTouchEndAt ==
  IF singleClickTimer.live /\ singleClickTimer.ev[1] = "touchend" THEN singleClickTimer.ev[2]
  ELSE IF suppressClickUntil > 0 THEN suppressClickUntil - SuppressMs
  ELSE 0

\* C2, as stated: every accepted touch-end of a tap that follows an accepted touch-end
\* by at least 50 ms and less than delay ms invokes onDoubleClick once in its handler
\* and leaves clickCount = 0.
C2_EveryPair ==
  [][ (/\ TouchEndStep /\ TapEnding
       /\ now - lastClickTime >= DebounceMs
       /\ PrevTouchEndAt > 0
       /\ now - PrevTouchEndAt >= DebounceMs
       /\ now - PrevTouchEndAt < delay)
      => /\ fired' = << <<"onDoubleClick", <<"touchend", now>> >> >>
         /\ clickCount' = 0 ]_vars

\* C2, amended: an accepted touch-end of a tap delivered while clickCount = 1 and the
\* single-click timer armed by an earlier touch-end is still pending invokes
\* onDoubleClick exactly once, in its handler, with its event; no single-click timer
\* stays live (onSingleClick is not invoked for the episode) and clickCount is 0 when
\* the handler returns.
C2_DoubleTap ==
  [][ (/\ TouchEndStep /\ TapEnding
       /\ clickCount = 1
       /\ singleClickTimer.live /\ singleClickTimer.ev[1] = "touchend"
       /\ now - lastClickTime >= DebounceMs)
      => /\ fired' = << <<"onDoubleClick", <<"touchend", now>> >> >>
         /\ clickCount' = 0
         /\ \A tm \in LiveTimers' : tm.kind # "singleClick" ]_vars

C2_Witness ==
  /\ op.h = "handleTouchEnd" /\ op.ev[2] = now /\ op.opened = "touchend"
  /\ fired = << <<"onDoubleClick", op.ev>> >>
  /\ press.solo /\ fingers = 0 /\ clickCount = 0

\* C3: a touch that went down alone and is held for longPressDelay with no touch-move,
\* touch-cancel, click or reset() has had onLongPress invoked exactly once with its
\* event once longPressDelay has passed, whatever earlier taps and timers are pending.
C3_LongPress == HeldLong => press.lp = 1

\* C4: once onLongPress has fired for a press, and until the next touch-start, no
\* click callback is invoked for a touch-end, and onSingleClick is not invoked for a
\* click event.
C4_Exclusive ==
  (press.solo /\ press.lp >= 1)
    => \A i \in DOMAIN fired :
         /\ fired[i][2][1] # "touchend"
         /\ ~(fired[i][1] = "onSingleClick" /\ fired[i][2][1] = "click")

Counted ==
  /\ op.h \in {"handleTouchEnd", "handleClick"}
  /\ \/ DoubleClickConfirmed
     \/ clickCount = 1 /\ singleClickTimer.live /\ singleClickTimer.ev = op.ev

\* C6: of two events out of {touch-end, click} delivered less than 50 ms apart, the
\* later one does not count a click when the earlier one did.
C6_Debounce ==
  [][ ((TouchEndStep \/ ClickStep) /\ Counted /\ now - op.ev[2] < DebounceMs)
      => (clickCount' # clickCount + 1 /\ fired' = << >>) ]_vars

\* C7: handleTouchCancel invokes no callback and leaves the session at its initial
\* values with no timer live.
C7_TouchCancel ==
  op.h = "handleTouchCancel" => (fired = << >> /\ SessionInitial /\ LiveTimers = {})

\* C8: after handleTouchMove no long-press timer armed before it is live (so
\* onLongPress is not invoked for a touch that moved), and handleTouchMove changes
\* nothing but the long-press timer.
C8_TouchMove ==
  [][ TouchMoveStep
      => /\ \A tm \in LiveTimers' : tm.kind # "longPress"
         /\ fired' = << >>
         /\ UNCHANGED <<clickCount, isLongPress, touchStartTime, lastClickTime,
                        isDoubleClickProcessed, suppressClickUntil,
                        singleClickTimer, suppressTimer, orphans>> ]_vars

\* C9: once the component is unmounted no timer is live and no callback is invoked.
C9_Teardown == ~mounted => (LiveTimers = {} /\ fired = << >>)

\* C10: after reset() the session is at its initial values, no timer the classifier
\* armed is live and the call invoked no callback.
C10_Reset ==
  op.h = "reset" => (SessionInitial /\ LiveTimers = {} /\ fired = << >>)

\* the counters of a snapshot of the refs, and the timers it holds that are still to fire
Counters(r) ==
  <<r.clickCount, r.isLongPress, r.touchStartTime, r.lastClickTime,
    r.isDoubleClickProcessed, r.suppressClickUntil>>
Pending(r) == {tm \in {r.singleClickTimer, r.longPressTimer, r.suppressTimer} : tm.live}

\* C11: whenever a callback is invoked the session's timers are already canceled and its
\* counters already reset (clickCount = 0), so that the session a callback is called in
\* is the session its handler leaves behind: a callback that throws, which skips the
\* rest of the handler, leaves the same state as one that returns.
C11_CallbackIsolation ==
  \A i \in DOMAIN seen :
    /\ seen[i].clickCount = 0
    /\ ~seen[i].singleClickTimer.live /\ ~seen[i].longPressTimer.live
    /\ Counters(seen[i]) = Counters(Refs(Session))
    /\ Pending(seen[i]) = Pending(Refs(Session))

\* C12: no live long-press timer exists that the session holds no handle to, so at most
\* one long-press timer is live.
C12_OneLongPressTimer ==
  /\ \A tm \in orphans : tm.kind # "longPress"
  /\ Cardinality({tm \in LiveTimers : tm.kind = "longPress"}) <= 1

\* C13: no live single-click timer exists that the session holds no handle to, and a
\* single-click timer is armed only in a state where no single-click timer is live: at
\* most one is live at any instant.
C13_OneSingleClickTimer ==
  [][ /\ \A tm \in orphans' : tm.kind # "singleClick"
      /\ (singleClickTimer'.live /\ singleClickTimer' # singleClickTimer)
           => \A tm \in LiveTimers : tm.kind # "singleClick" ]_vars

\* a single-click timer armed by the last handler, after an earlier one was canceled by
\* a double tap
C13_Witness ==
  /\ op.h \in {"handleTouchEnd", "handleClick"}
  /\ singleClickTimer.live /\ singleClickTimer.ev = op.ev
  /\ suppressClickUntil > 0

\* the last step concluded an episode: the single-click timer expired, a double-click
\* was confirmed, the long-press timer fired, or the touch was canceled
EpisodeConcluded ==
  \/ op.h \in {"singleClick", "longPress", "handleTouchCancel"}
  \/ DoubleClickConfirmed

\* C14: clickCount is 0 immediately after the single-click timer has expired, after a
\* double-click has been confirmed, after the long-press timer has fired and after
\* touch-cancel.
C14_CountZeroAtEnd == EpisodeConcluded => clickCount = 0

\* C15: after a touch-path double-click has set suppressClickUntil to now + 100 and armed
\* the suppression-expiry timer, that timer is live when the handler returns, and in no
\* state is suppressClickUntil non-zero once its window has elapsed (the expiry, due at
\* that instant, sets it back to 0).
C15_SuppressionExpires ==
  /\ (DoubleClickConfirmed /\ op.h = "handleTouchEnd" /\ op.ev[2] = now)
       => (suppressTimer.live /\ suppressTimer.at = suppressClickUntil)
  /\ (mounted /\ suppressClickUntil # 0) => now <= suppressClickUntil

\* the step invokes onDoubleClick
ConfirmsDoubleClick == \E i \in DOMAIN fired' : fired'[i][1] = "onDoubleClick"

\* C16: an accepted click that follows an accepted touch-end by 50 ms or more, within
\* delay, is not combined with it into an onDoubleClick, nor a touch-end with an earlier
\* click; and a click delivered while a touch is held does not cancel that touch's
\* pending long-press timer.
C16_NoCrossTalk ==
  [][ /\ (/\ ClickStep /\ singleClickTimer.live /\ singleClickTimer.ev[1] = "touchend"
          /\ now - singleClickTimer.ev[2] >= DebounceMs) => ~ConfirmsDoubleClick
      /\ (/\ TouchEndStep /\ singleClickTimer.live /\ singleClickTimer.ev[1] = "click"
          /\ now - singleClickTimer.ev[2] >= DebounceMs) => ~ConfirmsDoubleClick
      /\ (/\ ClickStep /\ fingers = 1 /\ press.solo
          /\ longPressTimer.live /\ longPressTimer.ev = press.ev)
           => longPressTimer' = longPressTimer ]_vars

\* C17: clickCount is 0 or 1 whenever no handler is running, and inside a handler (where
\* the callbacks find it) it is at most 2, the value 2 being found only by the
\* onDoubleClick of the handler that confirms a double-click; it never reaches 3.
C17_CountRange ==
  /\ clickCount \in {0, 1}
  /\ \A i \in DOMAIN seen :
       /\ seen[i].clickCount \in {0, 1, 2}
       /\ seen[i].clickCount = 2 => fired[i][1] = "onDoubleClick"

\* a handler has just confirmed a double-click: its callback found clickCount = 2 and
\* the handler left 0
C17_Witness ==
  /\ DoubleClickConfirmed /\ op.ev[2] = now
  /\ seen[1].clickCount = 2 /\ clickCount = 0

\* C18: an accepted touch-end of a touch for which the long press has not fired and
\* which was held, from its own touch-start, for less than longPressDelay is not
\* discarded by the long-press guard: it increments clickCount (to 1, or to the 2 that
\* confirms a double-click), whatever happened between its touch-start and its touch-end.
C18_LongPressGuard ==
  [][ (/\ TouchEndStep /\ TapEnding
       /\ now - lastClickTime >= DebounceMs
       /\ press.lp = 0)
        => (clickCount' = clickCount + 1 \/ ConfirmsDoubleClick) ]_vars

\* C19: a mounted session in which clickCount = 1 has its single-click timer pending, so
\* that with no further input the pending timers, as they expire, bring the session to
\* clickCount = 0 with no timer outstanding; clickCount = 1 never persists without that
\* timer.
C19_Quiescence == (mounted /\ clickCount = 1) => singleClickTimer.live

\* C20: a single-click timer is live only while clickCount = 1, so whenever it expires
\* the guard clickCount === 1 of its callback is true and the expiry invokes
\* onSingleClick, with the event that armed it.
C20_TimerImpliesOne ==
  /\ \A tm \in LiveTimers : tm.kind = "singleClick" => clickCount = 1
  /\ op.h = "singleClick"
       => (fired = << <<"onSingleClick", op.ev>> >> /\ seen[1].clickCount = 1)

\* a single-click timer has just expired, in a session that other events went through
\* while it was pending
C20_Witness ==
  /\ op.h = "singleClick" /\ fired = << <<"onSingleClick", op.ev>> >>
  /\ clickCount = 0 /\ fingers > 0 /\ now - op.ev[2] = delay
====
